---- MODULE Spec2Model ----
(***************************************************************************)
(* BlenderSims: the file lookup of simsgamedata.py (DictFileLoader,        *)
(* AnyFileLoader and the open variants) and the three import operations of *)
(* loadmesh.py (create_armature, add_mesh_to_armature,                     *)
(* add_action_from_skill), each as a step machine over the statements of   *)
(* its body.                                                               *)
(*                                                                         *)
(* A file name is a sequence of tokens: one token per letter of the        *)
(* basename and one token for the extension ("a" ".bmp"); str.lower() acts *)
(* token by token.                                                         *)
(***************************************************************************)
EXTENDS Integers, Sequences, FiniteSets, TLC

VARIABLES
    op,         \* the operation under way: "lookup", "create_armature",
                \* "add_mesh_to_armature" or "add_action_from_skill"
    pc,         \* position in the operation's body
    exc,        \* the exception the operation raised ("none": none so far)
    scene,      \* what the editor holds: linked objects, datablocks, mode
    \* ---- simsgamedata.py
    loaders,    \* AnyFileLoader.loaders
    basename,   \* the key of AnyFileLoader.__getitem__
    li,         \* position of the for loop over self.loaders (1-based)
    lpc,        \* "idle" | "loop" | "returned" | "raised"
    tried,      \* what loader[basename] gave for each loader tried so far
    lres,       \* what AnyFileLoader.__getitem__ returned or raised
    far_stream, \* the streams opened so far on the shared FAR cursor
    \* ---- create_armature
    sceletons,  \* len(sceleton_obj.sceletons)
    bones,      \* sceleton.bones
    bi,         \* position of the for loop over sceleton.bones (1-based)
    editbones,  \* the dict editbones: bone name -> index into edit_bones, 0: no key
    edit_bones, \* armature.edit_bones
    \* ---- add_mesh_to_armature
    mesh,           \* the decoded deformable mesh
    custom_texname, \* the parameter custom_texname ("None": not given)
    gi,             \* position of the loop "create vertex groups" (1-based)
    vertex_groups,  \* blobj.vertex_groups: per group, vertex -> weight in 1/65568
    \* ---- add_action_from_skill
    skills,         \* objdta.skills
    skill_choice,   \* the parameter skill_choice: an integer or a name
    skill,          \* the selected skill
    cfp,            \* which animation-frame table the cfp stream decodes to
    mi,             \* position of the for loop over skill.motions (1-based)
    fcurves         \* action.fcurves

lookupVars == <<loaders, basename, li, lpc, tried, lres>>

armVars == <<sceletons, bones, bi, editbones, edit_bones>>

meshVars == <<mesh, custom_texname, gi, vertex_groups>>

actVars == <<skills, skill_choice, skill, cfp, mi, fcurves>>

vars == <<op, pc, exc, scene, loaders, basename, li, lpc, tried, lres, far_stream,
          sceletons, bones, bi, editbones, edit_bones,
          mesh, custom_texname, gi, vertex_groups,
          skills, skill_choice, skill, cfp, mi, fcurves>>

(***************************** bounds ***************************************)
\* longest list of loaders handed to AnyFileLoader
MaxLoaders == 2

\* longest bone list of a skeleton
MaxBones == 3

\* longest bone list of a mesh
MaxMeshBones == 2

\* longest skill list of a character file
MaxSkills == 2

\* most frames of a motion
MaxFrames == 2

(**************************** program constants ******************************)
\* float(weight)/65568.0: weights are counted in units of 1/65568
WeightDivisor == 65568

(************************** names and str.lower ****************************)
LowerTok(c) ==
    CASE c = "A" -> "a"
      [] c = "B" -> "b"
      [] c = ".CFP" -> ".cfp"
      [] c = ".CMX.BCF" -> ".cmx.bcf"
      [] c = ".BMF" -> ".bmf"
      [] c = ".BMP" -> ".bmp"
      [] c = ".CMX" -> ".cmx"
      [] c = ".SKN" -> ".skn"
      [] OTHER -> c

UpperTok(c) ==
    CASE c = "a" -> "A"
      [] c = "b" -> "B"
      [] c = ".cfp" -> ".CFP"
      [] c = ".cmx.bcf" -> ".CMX.BCF"
      [] c = ".bmf" -> ".BMF"
      [] c = ".bmp" -> ".BMP"
      [] c = ".cmx" -> ".CMX"
      [] c = ".skn" -> ".SKN"
      [] OTHER -> c

\* str.lower()
Lower(s) == [i \in 1..Len(s) |-> LowerTok(s[i])]

Upper(s) == [i \in 1..Len(s) |-> UpperTok(s[i])]

\* format_str % basename, for the format strings "%s<ext>" of the module
Format(format_str, name) == name \o format_str

(************************ results of a lookup *******************************)
Raised(e) == [exc |-> e, how |-> "none", entry |-> <<>>, wrap |-> "none"]

Opened(how, entry) == [exc |-> "none", how |-> how, entry |-> entry, wrap |-> "none"]

(****************************** FarFile *************************************)
\* FarFile.open(name, stream): the entry of exactly that name, or not found
FarFileOpen(filenames, name) ==
    IF \E i \in 1..Len(filenames) : filenames[i] = name
    THEN Opened("far_stream", name)
    ELSE Raised("IOError")

(*************************** the open variants ******************************)
\* dict((e.lower(), e) for e in names): a later name replaces an earlier one
\* of the same lowercase form
\* the dict built so that the first name of a lowercase form is kept
RECURSIVE ContentDict_KeepFirst(_)
ContentDict_KeepFirst(names) ==
    IF names = <<>> THEN <<>>
    ELSE LET n    == Len(names)
             d    == ContentDict_KeepFirst(SubSeq(names, 1, n - 1))
             e    == names[n]
             keys == {d[i][1] : i \in 1..Len(d)}
         IN  IF Lower(e) \in keys THEN d ELSE Append(d, <<Lower(e), e>>)

RECURSIVE ContentDict(_)
ContentDict(names) ==
    IF names = <<>> THEN <<>>
    ELSE LET n    == Len(names)
             d    == ContentDict(SubSeq(names, 1, n - 1))
             e    == names[n]
             keys == {d[i][1] : i \in 1..Len(d)}
         IN  IF Lower(e) \in keys
             THEN [i \in 1..Len(d) |-> IF d[i][1] = Lower(e) THEN <<Lower(e), e>> ELSE d[i]]
             ELSE Append(d, <<Lower(e), e>>)

HasKey(d, k) == \E i \in 1..Len(d) : d[i][1] = k

GetKey(d, k) == d[CHOOSE i \in 1..Len(d) : d[i][1] = k][2]

\* OpenFromFar.__call__
OpenFromFar(filenames, fullname) == FarFileOpen(filenames, fullname)

\* GetFilenameFromTemporaryFromFar.__call__: self.content[...] of a missing key
\* raises KeyError; otherwise the entry is opened, read and written to a
\* temporary file
GetFilenameFromTemporaryFromFar(filenames, fullname) ==
    LET content == ContentDict(filenames)
    IN  IF HasKey(content, Lower(fullname))
        THEN LET strm == FarFileOpen(filenames, GetKey(content, Lower(fullname)))
             IN  IF strm.exc = "none" THEN Opened("tmpfile", strm.entry) ELSE strm
        ELSE Raised("KeyError")

\* OpenFromDir.__call__
OpenFromDir(filenames, fullname) ==
    LET content == ContentDict(filenames)
    IN  IF HasKey(content, Lower(fullname))
        THEN Opened("file", GetKey(content, Lower(fullname)))
        ELSE Raised("IOError")

\* GetFilenameFromDir.__call__
GetFilenameFromDir(filenames, fullname) ==
    LET content == ContentDict(filenames)
    IN  IF HasKey(content, Lower(fullname))
        THEN Opened("path", GetKey(content, Lower(fullname)))
        ELSE Raised("IOError")

Openf(loader, fullname) ==
    CASE loader.openf = "OpenFromFar" -> OpenFromFar(loader.filenames, fullname)
      [] loader.openf = "GetFilenameFromTemporaryFromFar" ->
            GetFilenameFromTemporaryFromFar(loader.filenames, fullname)
      [] loader.openf = "OpenFromDir" -> OpenFromDir(loader.filenames, fullname)
      [] loader.openf = "GetFilenameFromDir" -> GetFilenameFromDir(loader.filenames, fullname)

\* wrap_in_binarystream, wrap_in_textstream, dont_wrap
Wrapstream(w, r) == [r EXCEPT !.wrap = w]

\* DictFileLoader.__getitem__
DictFileLoader_getitem(loader, name) ==
    LET fullname == Format(loader.format_str, name)
        r        == Openf(loader, fullname)
    IN  IF r.exc = "none" THEN Wrapstream(loader.wrapstream, r) ELSE r

(******************** the combinations of the module ***********************)
Combinations ==
    { [name |-> "FarFileAniLoader",  format_str |-> <<".cfp">>,
       openf |-> "OpenFromFar", wrapstream |-> "dont_wrap"],
      [name |-> "FarFileCharLoader", format_str |-> <<".cmx.bcf">>,
       openf |-> "OpenFromFar", wrapstream |-> "dont_wrap"],
      [name |-> "FarFileSkinLoader", format_str |-> <<".bmf">>,
       openf |-> "OpenFromFar", wrapstream |-> "wrap_in_binarystream"],
      [name |-> "FarTexLoader",      format_str |-> <<".bmp">>,
       openf |-> "GetFilenameFromTemporaryFromFar", wrapstream |-> "dont_wrap"],
      [name |-> "DirTexLoader",      format_str |-> <<".bmp">>,
       openf |-> "GetFilenameFromDir", wrapstream |-> "dont_wrap"],
      [name |-> "DirCharLoader",     format_str |-> <<".cmx">>,
       openf |-> "OpenFromDir", wrapstream |-> "dont_wrap"],
      [name |-> "DirSkinLoader",     format_str |-> <<".skn">>,
       openf |-> "OpenFromDir", wrapstream |-> "wrap_in_textstream"] }

\* the listings of an archive or directory holding files of extension ext:
\* "a<ext>", "A<EXT>" and "b<ext>", alone or the first two together
Listings(ext) ==
    LET lo == <<"a">> \o ext
        up == <<"A">> \o Upper(ext)
        ot == <<"b">> \o ext
    IN  { <<>>, <<lo>>, <<up>>, <<ot>>, <<lo, up>>, <<up, lo>> }

Loader(c, filenames) ==
    [name |-> c.name, format_str |-> c.format_str, openf |-> c.openf,
     wrapstream |-> c.wrapstream, filenames |-> filenames]

AllLoaders == UNION { { Loader(c, f) : f \in Listings(c.format_str) } : c \in Combinations }

Basenames == { <<"a">>, <<"A">> }

SeqsUpTo(S, n) == UNION { [1..k -> S] : k \in 0..n }

\* the least element of a set of integers
FirstOf(S) == CHOOSE i \in S : \A j \in S : i <= j

(************************* AnyFileLoader.__getitem__ ************************)
IsFar(loader) == loader.openf \in {"OpenFromFar", "GetFilenameFromTemporaryFromFar"}

\* the cursor when GetFilenameFromTemporaryFromFar returns without strm.read()
CursorAfter_NoRead(cur, loader, r) ==
    IF IsFar(loader) /\ r.exc = "none"
    THEN Append(cur, [entry |-> r.entry, opener |-> loader.openf, consumed |-> FALSE])
    ELSE cur

\* what a call of loader[name] leaves on the FAR cursor: OpenFromFar hands the
\* stream on unread, GetFilenameFromTemporaryFromFar has read it to the end
CursorAfter(cur, loader, r) ==
    IF IsFar(loader) /\ r.exc = "none"
    THEN Append(cur, [entry |-> r.entry, opener |-> loader.openf,
                      consumed |-> (r.how = "tmpfile")])
    ELSE cur



\* one turn of "for loader in self.loaders: try: return loader[basename]
\* except IOError: pass"
TryLoader ==
    /\ lpc = "loop"
    /\ li <= Len(loaders)
    /\ LET r == DictFileLoader_getitem(loaders[li], basename)
       IN  /\ tried' = Append(tried, r)
           /\ far_stream' = CursorAfter(far_stream, loaders[li], r)
           /\ IF r.exc = "none"
              THEN lpc' = "returned" /\ lres' = r /\ li' = li
              ELSE IF r.exc = "IOError"
                   THEN lpc' = "loop" /\ lres' = lres /\ li' = li + 1
                   ELSE lpc' = "raised" /\ lres' = r /\ li' = li
    /\ UNCHANGED <<op, pc, exc, scene, loaders, basename>>
    /\ UNCHANGED <<armVars, meshVars, actVars>>

\* raise IOError("Could not find match ...") after the loop
NoMatch ==
    /\ lpc = "loop"
    /\ li > Len(loaders)
    /\ lpc' = "raised"
    /\ lres' = [Raised("IOError") EXCEPT !.how = "no_match"]
    /\ UNCHANGED <<op, pc, exc, scene, loaders, basename, li, tried, far_stream>>
    /\ UNCHANGED <<armVars, meshVars, actVars>>

NoResult == Raised("none")

(************************** the parts not in use ****************************)
NoScene == [linked |-> {}, data |-> {}, mode |-> "OBJECT", active |-> "none",
            animation_data |-> FALSE, action |-> "none", image |-> "none"]

LookupIdle ==
    /\ loaders = <<>> /\ basename = <<>> /\ li = 1 /\ lpc = "idle"
    /\ tried = <<>> /\ lres = NoResult

BoneNames == {"a", "b"}

ArmIdle ==
    /\ sceletons = 1 /\ bones = <<>> /\ bi = 1
    /\ editbones = [n \in BoneNames |-> 0] /\ edit_bones = <<>>

NoMesh == [bones |-> <<>>, bonebindings |-> <<>>, blenddata |-> <<>>, texfilename |-> <<"x">>]

MeshIdle ==
    /\ mesh = NoMesh /\ custom_texname = "None" /\ gi = 1 /\ vertex_groups = <<>>

NoSkill == [name |-> "none", ani_name |-> <<>>, num_pos |-> 0, num_rot |-> 0, motions |-> <<>>]

ActIdle ==
    /\ skills = <<>> /\ skill_choice = [type |-> "int", val |-> 0]
    /\ skill = NoSkill /\ cfp = 0
    /\ mi = 1 /\ fcurves = <<>>

(****************************** the lookup alone ****************************)
InitLookup ==
    /\ op = "lookup" /\ pc = "lookup" /\ exc = "none" /\ scene = NoScene
    /\ loaders \in SeqsUpTo(AllLoaders, MaxLoaders)
    /\ basename \in Basenames
    /\ li = 1
    /\ lpc = "loop"
    /\ tried = <<>>
    /\ lres = NoResult
    /\ far_stream = <<>>
    /\ ArmIdle /\ MeshIdle /\ ActIdle

NextLookup == TryLoader \/ NoMatch

SpecLookup == InitLookup /\ [][NextLookup]_vars

(***************************************************************************)
(* mathutils: 4x4 matrices as rows of integers, quaternions as <<w, x, y, z>> *)
(***************************************************************************)
Identity4 == << <<1, 0, 0, 0>>, <<0, 1, 0, 0>>, <<0, 0, 1, 0>>, <<0, 0, 0, 1>> >>

\* mathutils.Matrix.Translation(v)
Translation(v) ==
    << <<1, 0, 0, v[1]>>, <<0, 1, 0, v[2]>>, <<0, 0, 1, v[3]>>, <<0, 0, 0, 1>> >>

\* A * B
MatMul(A, B) ==
    [i \in 1..4 |-> [j \in 1..4 |->
        A[i][1] * B[1][j] + A[i][2] * B[2][j] + A[i][3] * B[3][j] + A[i][4] * B[4][j]]]

\* Quaternion(q).to_matrix().to_4x4(), q of unit length
QuatToMatrix(q) ==
    LET w == q[1]  x == q[2]  y == q[3]  z == q[4]
    IN  << <<1 - 2 * (y * y + z * z), 2 * (x * y - z * w), 2 * (x * z + y * w), 0>>,
           <<2 * (x * y + z * w), 1 - 2 * (x * x + z * z), 2 * (y * z - x * w), 0>>,
           <<2 * (x * z - y * w), 2 * (y * z + x * w), 1 - 2 * (x * x + y * y), 0>>,
           <<0, 0, 0, 1>> >>

\* M * v for a 3-vector v (the rotation part of M)
MatVec(M, v) ==
    [i \in 1..3 |-> M[i][1] * v[1] + M[i][2] * v[2] + M[i][3] * v[3]]

VecAdd(u, v) == [i \in 1..3 |-> u[i] + v[i]]

\* the head of an edit bone: the translation of its matrix
HeadOf(M) == <<M[1][4], M[2][4], M[3][4]>>

(***************************************************************************)
(* create_armature                                                         *)
(***************************************************************************)
\* the decoder reads its stream to the end: the stream opened last on the
\* cursor is consumed
ReadToEnd(cur) ==
    IF cur = <<>> THEN cur
    ELSE [cur EXCEPT ![Len(cur)] = [@ EXCEPT !.consumed = TRUE]]

CallerStream(entry) == [entry |-> entry, opener |-> "caller", consumed |-> FALSE]

\* the quaternion the rest pose is built from, with the bone's own rotation
QuatOfBone_Decoded(bone) == bone.quat

\* a,b,c,d = [1.0, 0., 0., 0.]  (the bone's quat is commented out)
QuatOfBone(bone) == <<1, 0, 0, 0>>

\* quaternion = mathutils.Quaternion([-a,b,c,d]); quatmat = ...to_4x4()
Quatmat(bone) ==
    LET q == QuatOfBone(bone)
    IN  QuatToMatrix(<<-q[1], q[2], q[3], q[4]>>)

\* sceleton_obj = read_characterdata_from_stream(skel_stream);
\* assert len(sceleton_obj.sceletons) == 1
ArmRead ==
    /\ op = "create_armature" /\ pc = "start"
    /\ far_stream' = ReadToEnd(far_stream)
    /\ IF sceletons = 1
       THEN pc' = "create" /\ exc' = exc
       ELSE pc' = "failed" /\ exc' = "AssertionError"
    /\ UNCHANGED <<op, scene, lookupVars, armVars, meshVars, actVars>>

\* armature and object are created, the object is linked into the scene, made
\* active and selected, and the editor enters edit mode
ArmCreate ==
    /\ op = "create_armature" /\ pc = "create"
    /\ scene' = [scene EXCEPT !.data = @ \cup {"armature", "armobj"},
                              !.linked = @ \cup {"armobj"},
                              !.active = "armobj",
                              !.mode = "EDIT"]
    /\ pc' = "bones"
    /\ UNCHANGED <<op, exc, lookupVars, far_stream, armVars, meshVars, actVars>>

NewEditBone(bone) ==
    [name |-> bone.name, parent |-> 0, matrix |-> Identity4,
     head |-> <<0, 0, 0>>, tail |-> <<0, 0, 0>>]

\* a parent lookup that never raises (editbones.get(...) in place of [...])
ParentKnown_Always(bone) == TRUE

\* editbones[bone.parent_name] finds the key
ParentKnown(bone) == editbones[bone.parent_name] # 0

\* the body of "for bone in sceleton.bones"
ArmBoneStep(bone) ==
    IF bone.parent_name # "NULL" /\ ~ParentKnown(bone)
    THEN \* editbones[bone.parent_name] raises KeyError, the new edit bone exists
         /\ pc' = "failed" /\ exc' = "KeyError"
         /\ edit_bones' = Append(edit_bones, NewEditBone(bone))
         /\ UNCHANGED <<editbones, bi>>
    ELSE /\ pc' = "bones" /\ exc' = exc
         /\ LET p          == IF bone.parent_name # "NULL" THEN editbones[bone.parent_name] ELSE 0
                parent_mat == IF p # 0 THEN edit_bones[p].matrix ELSE Identity4
                m          == MatMul(MatMul(parent_mat, Quatmat(bone)), Translation(bone.pos))
            IN  edit_bones' = Append(edit_bones,
                    [name |-> bone.name, parent |-> p, matrix |-> m, head |-> HeadOf(m),
                     tail |-> VecAdd(HeadOf(m), MatVec(Quatmat(bone), <<0, 0, 1>>))])
         /\ editbones' = [editbones EXCEPT ![bone.name] = Len(edit_bones) + 1]
         /\ bi' = bi + 1

ArmBone ==
    /\ op = "create_armature" /\ pc = "bones"
    /\ bi <= Len(bones)
    /\ ArmBoneStep(bones[bi])
    /\ UNCHANGED <<op, scene, lookupVars, far_stream, sceletons, bones, meshVars, actVars>>

\* bpy.ops.object.mode_set(mode='OBJECT'); return armobj
ArmFinish ==
    /\ op = "create_armature" /\ pc = "bones"
    /\ bi > Len(bones)
    /\ scene' = [scene EXCEPT !.mode = "OBJECT"]
    /\ pc' = "done"
    /\ UNCHANGED <<op, exc, lookupVars, far_stream, armVars, meshVars, actVars>>

\* the decoded bones: a name, a parent name or "NULL", an offset, a rotation
BonePoses ==
    { [pos |-> <<0, 0, 1>>, quat |-> <<1, 0, 0, 0>>],
      [pos |-> <<1, -2, 0>>, quat |-> <<0, 1, 0, 0>>] }

DecodedBones ==
    { [name |-> n, parent_name |-> p, pos |-> q.pos, quat |-> q.quat] :
        n \in BoneNames, p \in BoneNames \cup {"NULL"}, q \in BonePoses }

InitArmature ==
    /\ op = "create_armature" /\ pc = "start" /\ exc = "none" /\ scene = NoScene
    /\ LookupIdle
    /\ far_stream = <<CallerStream(<<"a", ".cmx.bcf">>)>>
    /\ sceletons \in 0..2
    /\ bones \in SeqsUpTo(DecodedBones, MaxBones)
    /\ (sceletons # 1 => bones = <<>>)
    /\ bi = 1
    /\ editbones = [n \in BoneNames |-> 0]
    /\ edit_bones = <<>>
    /\ MeshIdle /\ ActIdle

NextArmature == ArmRead \/ ArmCreate \/ ArmBone \/ ArmFinish

SpecArmature == InitArmature /\ [][NextArmature]_vars

(***************************************************************************)
(* Claims about create_armature                                            *)
(***************************************************************************)
\* bone i names a parent that no earlier bone of the list has as its name
Dangling(i) ==
    /\ bones[i].parent_name # "NULL"
    /\ ~\E j \in 1..(i - 1) : bones[j].name = bones[i].parent_name

\* C5: create_armature fails when the decoded data does not hold exactly one
\* skeleton, and when it comes to a bone whose parent was not processed earlier
\* in the list (declared later, never, or the bone itself); every bone it has
\* processed has a parent created strictly earlier and bearing the parent name,
\* so the parent links of a completed call form a forest.
C5_ParentsFirstOrFail ==
    op = "create_armature" =>
        /\ (pc \in {"create", "bones", "done"} => sceletons = 1)
        /\ (pc = "failed" =>
                \/ sceletons # 1 /\ exc = "AssertionError" /\ edit_bones = <<>>
                \/ sceletons = 1 /\ exc = "KeyError" /\ bi <= Len(bones) /\ Dangling(bi))
        /\ (pc = "done" => bi = Len(bones) + 1 /\ Len(edit_bones) = Len(bones))
        /\ \A i \in 1..(bi - 1) :
                /\ ~Dangling(i)
                /\ edit_bones[i].name = bones[i].name
                /\ IF bones[i].parent_name = "NULL"
                   THEN edit_bones[i].parent = 0
                   ELSE /\ edit_bones[i].parent \in 1..(i - 1)
                        /\ bones[edit_bones[i].parent].name = bones[i].parent_name

\* a completed call with a bone whose parent is itself a child
C5_Witness ==
    /\ op = "create_armature" /\ pc = "done"
    /\ \E i \in 1..Len(edit_bones) :
           /\ edit_bones[i].parent # 0
           /\ edit_bones[edit_bones[i].parent].parent # 0

\* the bone of the list that bone i has as its parent: the last earlier bone
\* of that name
ParentOf(i) ==
    CHOOSE j \in 1..(i - 1) :
        /\ bones[j].name = bones[i].parent_name
        /\ \A k \in (j + 1)..(i - 1) : bones[k].name # bones[i].parent_name

\* the sum of the offsets of bone i and of its ancestors
RECURSIVE OffsetSum(_)
OffsetSum(i) ==
    IF bones[i].parent_name = "NULL"
    THEN bones[i].pos
    ELSE VecAdd(OffsetSum(ParentOf(i)), bones[i].pos)

\* C6: after a successful create_armature every bone's matrix is the pure
\* translation by the component-wise sum of the offsets of the bone and of all
\* its ancestors, whatever rotation was decoded for the bone and its ancestors.
C6_BindPoseIsSumOfOffsets ==
    (op = "create_armature" /\ pc = "done") =>
        \A i \in 1..Len(bones) :
            /\ edit_bones[i].matrix = Translation(OffsetSum(i))
            /\ edit_bones[i].head = OffsetSum(i)

\* a completed call with a bone at depth two whose decoded rotation and whose
\* ancestors' offsets are not trivial
C6_Witness ==
    /\ op = "create_armature" /\ pc = "done"
    /\ \E i \in 1..Len(edit_bones) :
           /\ edit_bones[i].parent # 0
           /\ edit_bones[edit_bones[i].parent].parent # 0
           /\ bones[i].quat # <<1, 0, 0, 0>>
           /\ bones[edit_bones[i].parent].quat # <<1, 0, 0, 0>>
           /\ edit_bones[i].head # bones[i].pos

(***************************************************************************)
(* add_mesh_to_armature.  Vertex coordinates, faces and UV coordinates are  *)
(* not part of the state: the operation is followed through what it creates *)
(* in the scene, the vertex groups and the texture lookup.                  *)
(***************************************************************************)
\* the vertices of the mesh: 0 .. len(mesh.uvcoords) - 1
Verts == {0, 1}

\* range(first, first + count)
Range(first, count) == first..(first + count - 1)

\* vgroup.add(indices, weight, 'REPLACE')
VGroupAdd_Replace(w, indices, weight) ==
    [v \in DOMAIN w |-> IF v \in indices THEN weight ELSE w[v]]

\* vgroup.add(indices, weight, 'ADD'), weight in units of 1/65568
VGroupAdd(w, indices, weight) ==
    [v \in DOMAIN w |-> IF v \in indices THEN w[v] + weight ELSE w[v]]

\* float(weight)/65568.0 in units of 1/65568
ScaledWeight(weight) == weight

\* for i in range(frst_wghtotr, frst_wghtotr+num_wghtotr):
\*     vertidx, weight = mesh.blenddata[i]; vgroup.add([vertidx], ..., 'ADD')
RECURSIVE AddBlended(_, _, _, _)
AddBlended(w, blenddata, i, last) ==
    IF i > last THEN w
    ELSE AddBlended(VGroupAdd(w, {blenddata[i + 1][1]}, ScaledWeight(blenddata[i + 1][2])),
                    blenddata, i + 1, last)

\* one turn of the loop "create vertex groups"
NewVertexGroup(m, k) ==
    LET binding == m.bonebindings[k]
        w0      == [v \in Verts |-> 0]
        w1      == VGroupAdd(w0, Range(binding[2], binding[3]), WeightDivisor)
    IN  [name |-> m.bones[k],
         w    |-> AddBlended(w1, m.blenddata, binding[4], binding[4] + binding[5] - 1)]

\* mesh = read_deformablemesh_from_stream(stream); the mesh datablock and the
\* object are created, the armature modifier is set (lines 97-121)
MeshRead ==
    /\ op = "add_mesh_to_armature" /\ pc = "start"
    /\ far_stream' = ReadToEnd(far_stream)
    /\ scene' = [scene EXCEPT !.data = @ \cup {"blmesh", "blobj"}]
    /\ pc' = "groups"
    /\ UNCHANGED <<op, exc, lookupVars, armVars, meshVars, actVars>>

MeshGroup ==
    /\ op = "add_mesh_to_armature" /\ pc = "groups"
    /\ gi <= Len(mesh.bones)
    /\ vertex_groups' = Append(vertex_groups, NewVertexGroup(mesh, gi))
    /\ gi' = gi + 1
    /\ UNCHANGED <<op, pc, exc, scene, lookupVars, far_stream, armVars,
                   mesh, custom_texname, actVars>>

\* scene.objects.link(blobj) and the UV layer (lines 134-152)
MeshLink ==
    /\ op = "add_mesh_to_armature" /\ pc = "groups"
    /\ gi > Len(mesh.bones)
    /\ scene' = [scene EXCEPT !.linked = @ \cup {"blobj"}]
    /\ pc' = "texture"
    /\ UNCHANGED <<op, exc, lookupVars, far_stream, armVars, meshVars, actVars>>

\* the call texfilenames[name] begins
BeginLookup(name) ==
    /\ basename' = name /\ li' = 1 /\ lpc' = "loop" /\ tried' = <<>> /\ lres' = NoResult
    /\ UNCHANGED loaders

\* the choice of the texture (lines 157-162)
MeshTexture ==
    /\ op = "add_mesh_to_armature" /\ pc = "texture"
    /\ IF custom_texname # "None"
       THEN BeginLookup(custom_texname) /\ pc' = "texlookup"
       ELSE IF mesh.texfilename # <<"x">>
            THEN BeginLookup(mesh.texfilename) /\ pc' = "texlookup"
            ELSE UNCHANGED lookupVars /\ pc' = "done"
    /\ UNCHANGED <<op, exc, scene, far_stream, armVars, meshVars, actVars>>

\* set_mesh_uvtexture(blobj, tex_filename); return blobj
MeshSetTexture ==
    /\ op = "add_mesh_to_armature" /\ pc = "texlookup"
    /\ lpc = "returned"
    /\ scene' = [scene EXCEPT !.image = lres.entry]
    /\ pc' = "done"
    /\ UNCHANGED <<op, exc, lookupVars, far_stream, armVars, meshVars, actVars>>

\* texfilenames[...] raised: the exception leaves add_mesh_to_armature
MeshTextureMissing ==
    /\ op = "add_mesh_to_armature" /\ pc = "texlookup"
    /\ lpc = "raised"
    /\ exc' = lres.exc
    /\ pc' = "failed"
    /\ UNCHANGED <<op, scene, lookupVars, far_stream, armVars, meshVars, actVars>>

\* the scene add_mesh_to_armature and add_action_from_skill are called in: the
\* armature object of an earlier create_armature
ArmatureScene ==
    [NoScene EXCEPT !.linked = {"armobj"}, !.data = {"armature", "armobj"},
                    !.active = "armobj"]

\* the blend tables of the decoded meshes: <<vertex index, raw weight>>
BlendTables ==
    { <<>>,
      << <<0, 65535>> >>,
      << <<0, 65568>>, <<0, 65535>> >>,
      << <<1, 0>>, <<1, 65568>> >> }

\* first and count of a range inside 0 .. n-1; the empty range once
RangesIn(n) ==
    {<<0, 0>>} \cup {r \in (0..n) \X (1..n) : r[1] + r[2] <= n}

BindingsOf(blenddata) ==
    { <<0, e[1], e[2], b[1], b[2]>> :
        e \in RangesIn(Cardinality(Verts)), b \in RangesIn(Len(blenddata)) }

MeshBoneNames(k) == [i \in 1..k |-> IF i % 2 = 1 THEN "a" ELSE "b"]

\* a decoded mesh: k bones, a binding for each, a blend table and a default
\* texture name or "x"
DecodedMesh(k, bb, bd, t) ==
    [bones |-> MeshBoneNames(k), bonebindings |-> bb, blenddata |-> bd, texfilename |-> t]

\* the objects passed as texfilenames: an AnyFileLoader over these loaders
TexSources ==
    LET lo  == <<"a", ".bmp">>
        far == CHOOSE c \in Combinations : c.name = "FarTexLoader"
        dir == CHOOSE c \in Combinations : c.name = "DirTexLoader"
    IN  { <<Loader(far, <<lo>>)>>,
          <<Loader(dir, <<>>)>>,
          <<Loader(far, <<>>), Loader(dir, <<lo>>)>>,
          <<Loader(dir, <<>>), Loader(far, <<lo>>)>> }

InitMesh ==
    /\ op = "add_mesh_to_armature" /\ pc = "start" /\ exc = "none"
    /\ scene = ArmatureScene
    /\ loaders \in TexSources
    /\ basename = <<>> /\ li = 1 /\ lpc = "idle" /\ tried = <<>> /\ lres = NoResult
    /\ far_stream = <<CallerStream(<<"a", ".bmf">>)>>
    /\ ArmIdle
    /\ \E bd \in BlendTables, k \in 0..MaxMeshBones :
          \E bb \in [1..k -> BindingsOf(bd)], t \in {<<"x">>, <<"a">>} :
             mesh = DecodedMesh(k, bb, bd, t)
    /\ custom_texname \in {"None", <<"b">>}
    /\ gi = 1
    /\ vertex_groups = <<>>
    /\ ActIdle

NextMesh ==
    \/ MeshRead \/ MeshGroup \/ MeshLink \/ MeshTexture
    \/ TryLoader \/ NoMatch
    \/ MeshSetTexture \/ MeshTextureMissing

SpecMesh == InitMesh /\ [][NextMesh]_vars

(***************************************************************************)
(* Claims about the vertex groups                                          *)
(***************************************************************************)
\* 1 when vertex v lies in the exclusive range of the binding of bone g
Exclusive(g, v) ==
    IF v \in Range(mesh.bonebindings[g][2], mesh.bonebindings[g][3]) THEN 1 ELSE 0

\* the entries of the blend table in the blend range of bone g that name v
BlendEntries(g, v) ==
    {i \in Range(mesh.bonebindings[g][4], mesh.bonebindings[g][5]) :
        mesh.blenddata[i + 1][1] = v}

RECURSIVE RawSum(_)
RawSum(I) ==
    IF I = {} THEN 0
    ELSE LET i == CHOOSE x \in I : TRUE
         IN  mesh.blenddata[i + 1][2] + RawSum(I \ {i})

RECURSIVE TotalWeight(_, _)
TotalWeight(g, v) ==
    IF g = 0 THEN 0 ELSE vertex_groups[g].w[v] + TotalWeight(g - 1, v)

RECURSIVE References(_, _)
References(g, v) ==
    IF g = 0 THEN 0
    ELSE WeightDivisor * Exclusive(g, v) + RawSum(BlendEntries(g, v)) + References(g - 1, v)

\* C7: in units of 1/65568, the weight of a vertex in the group of a bone is
\* 65568 for its membership in the bone's exclusive range plus the raw weights
\* of the blend entries of the bone's blend range that name it, each added to
\* what the vertex had; nothing is clamped or normalized, so the weight of a
\* vertex over all groups is the sum of all contributions that reference it.
\* A single blend entry of raw weight 0 gives 0, of 65568 gives exactly 1, of
\* 65535 gives less than 1.
C7_WeightsAccumulate ==
    op = "add_mesh_to_armature" =>
        /\ Len(vertex_groups) = gi - 1
        /\ \A g \in 1..Len(vertex_groups) : \A v \in Verts :
              /\ vertex_groups[g].w[v] =
                    WeightDivisor * Exclusive(g, v) + RawSum(BlendEntries(g, v))
              /\ (Exclusive(g, v) = 0 /\ Cardinality(BlendEntries(g, v)) = 1) =>
                    LET raw == RawSum(BlendEntries(g, v))
                    IN  /\ (raw = 0 => vertex_groups[g].w[v] = 0)
                        /\ (raw = 65568 => vertex_groups[g].w[v] = WeightDivisor)
                        /\ (raw = 65535 => vertex_groups[g].w[v] < WeightDivisor)
        /\ \A v \in Verts :
              TotalWeight(Len(vertex_groups), v) = References(Len(vertex_groups), v)

\* a finished call in which a vertex of a bone's exclusive range is also named
\* by two entries of the same bone's blend range and by a second bone, and ends
\* with more than 1.0 in the first bone's group
C7_Witness ==
    /\ op = "add_mesh_to_armature" /\ pc = "done"
    /\ Len(vertex_groups) = 2
    /\ \E v \in Verts :
           /\ Exclusive(1, v) = 1
           /\ Cardinality(BlendEntries(1, v)) = 2
           /\ vertex_groups[1].w[v] > 2 * WeightDivisor
           /\ vertex_groups[2].w[v] > 0

(***************************************************************************)
(* add_action_from_skill                                                   *)
(***************************************************************************)
\* list indexing that takes no negative index
ListIndex_NoWrap(seq, i) ==
    IF 0 <= i /\ i < Len(seq)
    THEN [exc |-> "none", skill |-> seq[i + 1]]
    ELSE [exc |-> "IndexError", skill |-> NoSkill]

\* objdta.skills[skill_choice]: a Python list index, negative ones count from
\* the end
ListIndex(seq, i) ==
    IF 0 <= i /\ i < Len(seq)
    THEN [exc |-> "none", skill |-> seq[i + 1]]
    ELSE IF -Len(seq) <= i /\ i < 0
         THEN [exc |-> "none", skill |-> seq[Len(seq) + i + 1]]
         ELSE [exc |-> "IndexError", skill |-> NoSkill]

\* next(s for s in objdta.skills if s.name == skill_name): skill_name is no
\* name of the function or the module (the parameter is skill_choice), so the
\* first comparison raises NameError; so does the except StopIteration branch
SkillByName(seq, name) == [exc |-> "NameError", skill |-> NoSkill]

\* the seven arrays read_animdta_from_cfp_stream gives: three of num_pos values,
\* four of num_rot values.  Table c, array a (from 0), position j (from 0)
Raw(c, a, j) == IF c = 0 THEN (a + 1) * 10 + j ELSE 3 * a - 10 * j - 9

RawFrames(c, num_pos, num_rot) ==
    [a \in 1..7 |-> [j \in 1..(IF a <= 3 THEN num_pos ELSE num_rot) |-> Raw(c, a - 1, j - 1)]]

\* the value of a rotation keyframe, no component negated
RotValue_NoFlip(axis_i, x) == x

\* the value of a rotation keyframe: -raw for axis_i == 0, raw otherwise
RotValue(axis_i, x) == IF axis_i = 0 THEN -x ELSE x

Curve(bone_name, prop, index, points) ==
    [data_path |-> <<bone_name, prop>>, index |-> index, keyframe_points |-> points]

\* the curves of "if motion.pos_used:"
PosCurves(motion, raw_frames) ==
    IF motion.pos_used
    THEN [a \in 1..3 |->
            Curve(motion.bone_name, "location", a - 1,
                  [k \in 1..motion.num_frames |->
                      <<k - 1, raw_frames[a][motion.pos_off + k]>>])]
    ELSE <<>>

\* the curves of "if motion.rot_used:"
RotCurves(motion, raw_frames) ==
    IF motion.rot_used
    THEN [a \in 1..4 |->
            Curve(motion.bone_name, "rotation_quaternion", a - 1,
                  [k \in 1..motion.num_frames |->
                      <<k - 1, RotValue(a - 1, raw_frames[a + 3][motion.rot_off + k])>>])]
    ELSE <<>>

IsInt(choice) == choice.type = "int"

\* animdta = armobj.animation_data_create(); objdta = read_characterdata_...;
\* assert len(objdta.skills) != 0
ActRead ==
    /\ op = "add_action_from_skill" /\ pc = "start"
    /\ scene' = [scene EXCEPT !.animation_data = TRUE]
    /\ far_stream' = ReadToEnd(far_stream)
    /\ IF Len(skills) # 0
       THEN pc' = "select" /\ exc' = exc
       ELSE pc' = "failed" /\ exc' = "AssertionError"
    /\ UNCHANGED <<op, lookupVars, armVars, meshVars, actVars>>

\* the choice of the skill (lines 207-213)
ActSelect ==
    /\ op = "add_action_from_skill" /\ pc = "select"
    /\ LET r == IF IsInt(skill_choice)
                THEN ListIndex(skills, skill_choice.val)
                ELSE SkillByName(skills, skill_choice.val)
       IN  /\ skill' = r.skill
           /\ IF r.exc = "none"
              THEN pc' = "action" /\ exc' = exc
              ELSE pc' = "failed" /\ exc' = r.exc
    /\ UNCHANGED <<op, scene, lookupVars, far_stream, armVars, meshVars,
                   skills, skill_choice, cfp, mi, fcurves>>

\* action = bpy.data.actions.new(skill.name); animdta.action = action; the call
\* anim_dta_streams[skill.ani_name] begins
ActNewAction ==
    /\ op = "add_action_from_skill" /\ pc = "action"
    /\ scene' = [scene EXCEPT !.data = @ \cup {"action"}, !.action = skill.name]
    /\ BeginLookup(skill.ani_name)
    /\ pc' = "cfplookup"
    /\ UNCHANGED <<op, exc, far_stream, armVars, meshVars, actVars>>

\* anim_dta_streams[...] raised: the exception leaves add_action_from_skill
ActFramesMissing ==
    /\ op = "add_action_from_skill" /\ pc = "cfplookup"
    /\ lpc = "raised"
    /\ exc' = lres.exc
    /\ pc' = "failed"
    /\ UNCHANGED <<op, scene, lookupVars, far_stream, armVars, meshVars, actVars>>

\* raw_frames = read_animdta_from_cfp_stream(<the stream>, ...)
ActReadFrames ==
    /\ op = "add_action_from_skill" /\ pc = "cfplookup"
    /\ lpc = "returned"
    /\ far_stream' = ReadToEnd(far_stream)
    /\ pc' = "motions"
    /\ UNCHANGED <<op, exc, scene, lookupVars, armVars, meshVars, actVars>>

\* one turn of "for motion in skill.motions"
ActMotion ==
    /\ op = "add_action_from_skill" /\ pc = "motions"
    /\ mi <= Len(skill.motions)
    /\ LET raw_frames == RawFrames(cfp, skill.num_pos, skill.num_rot)
           motion     == skill.motions[mi]
       IN  fcurves' = fcurves \o PosCurves(motion, raw_frames) \o RotCurves(motion, raw_frames)
    /\ mi' = mi + 1
    /\ UNCHANGED <<op, pc, exc, scene, lookupVars, far_stream, armVars, meshVars,
                   skills, skill_choice, skill, cfp>>

\* return action
ActReturn ==
    /\ op = "add_action_from_skill" /\ pc = "motions"
    /\ mi > Len(skill.motions)
    /\ pc' = "done"
    /\ UNCHANGED <<op, exc, scene, lookupVars, far_stream, armVars, meshVars, actVars>>

Motion(bone_name, pos_used, rot_used, off, num_frames) ==
    [bone_name |-> bone_name, pos_used |-> pos_used, rot_used |-> rot_used,
     pos_off |-> 1 - off, rot_off |-> off, num_frames |-> num_frames]

\* the motion lists of the decoded skills
MotionLists ==
    { <<>>,
      <<Motion("a", FALSE, TRUE, 0, MaxFrames)>>,
      <<Motion("a", TRUE, FALSE, 1, MaxFrames)>>,
      <<Motion("a", TRUE, TRUE, 1, MaxFrames), Motion("b", FALSE, TRUE, 0, 1)>> }

AniNameOf(name) == IF name = "walk" THEN <<"a">> ELSE <<"b">>

DecodedSkills ==
    { [name |-> n, ani_name |-> AniNameOf(n), num_pos |-> MaxFrames + 1,
       num_rot |-> MaxFrames + 1, motions |-> ms] :
        n \in {"walk", "run"}, ms \in MotionLists }

SkillChoices ==
    { [type |-> "int", val |-> i] : i \in (-MaxSkills - 1)..(MaxSkills + 1) }
    \cup { [type |-> "str", val |-> n] : n \in {"walk", "jump"} }

\* the objects passed as anim_dta_streams: an AnyFileLoader over these loaders
AniSources ==
    LET lo  == <<"a", ".cfp">>
        far == CHOOSE c \in Combinations : c.name = "FarFileAniLoader"
    IN  { <<Loader(far, <<lo>>)>>,
          <<Loader(far, <<>>), Loader(far, <<lo>>)>> }

InitAction ==
    /\ op = "add_action_from_skill" /\ pc = "start" /\ exc = "none"
    /\ scene = ArmatureScene
    /\ loaders \in AniSources
    /\ basename = <<>> /\ li = 1 /\ lpc = "idle" /\ tried = <<>> /\ lres = NoResult
    /\ far_stream = <<CallerStream(<<"a", ".cmx.bcf">>)>>
    /\ ArmIdle /\ MeshIdle
    /\ skills \in SeqsUpTo(DecodedSkills, MaxSkills)
    /\ skill_choice \in SkillChoices
    /\ skill = NoSkill
    /\ cfp \in {0, 1}
    /\ mi = 1
    /\ fcurves = <<>>

NextAction ==
    \/ ActRead \/ ActSelect \/ ActNewAction
    \/ TryLoader \/ NoMatch
    \/ ActFramesMissing \/ ActReadFrames \/ ActMotion \/ ActReturn

SpecAction == InitAction /\ [][NextAction]_vars

(***************************************************************************)
(* Claims about add_action_from_skill                                      *)
(***************************************************************************)
\* the skill has been chosen, or the choice has failed
Chosen ==
    /\ op = "add_action_from_skill"
    /\ pc \notin {"start", "select"}
    /\ Len(skills) >= 1

Named(name) == {i \in 1..Len(skills) : skills[i].name = name}

\* C3: with a skill name as skill_choice and a non-empty skill list, the first
\* skill of that name is selected and the call goes on with it; when no skill
\* has the name the call fails and selects nothing.
C3_SkillSelectedByName ==
    (Chosen /\ ~IsInt(skill_choice)) =>
        IF Named(skill_choice.val) # {}
        THEN /\ skill = skills[FirstOf(Named(skill_choice.val))]
             /\ ~(pc = "failed" /\ exc \in {"NameError", "IndexError", "NotFound"})
        ELSE pc = "failed" /\ skill = NoSkill

\* C4 (as stated): an integer i in 0..n-1 selects the i-th skill; every other
\* integer, the negative ones included, fails with an index error and selects
\* no skill.
C4_IndexOutsideRangeFails ==
    (Chosen /\ IsInt(skill_choice)) =>
        LET i == skill_choice.val
            n == Len(skills)
        IN  IF 0 <= i /\ i < n
            THEN skill = skills[i + 1] /\ exc # "IndexError"
            ELSE pc = "failed" /\ exc = "IndexError" /\ skill = NoSkill

\* C4 (amended): an integer i in 0..n-1 selects the i-th skill (0 the first);
\* an integer i in -n..-1 selects the skill at n+i, counted from the end (-1 the
\* last); every integer i >= n or i < -n fails with an index error and selects
\* no skill.
C4_IndexCountsFromEitherEnd ==
    (Chosen /\ IsInt(skill_choice)) =>
        LET i == skill_choice.val
            n == Len(skills)
        IN  IF 0 <= i /\ i < n
            THEN skill = skills[i + 1] /\ exc # "IndexError"
            ELSE IF -n <= i /\ i < 0
                 THEN skill = skills[n + i + 1] /\ exc # "IndexError"
                 ELSE pc = "failed" /\ exc = "IndexError" /\ skill = NoSkill

\* a finished call that selected the last of two different skills by -1
C4_Witness ==
    /\ op = "add_action_from_skill" /\ pc = "done"
    /\ IsInt(skill_choice) /\ skill_choice.val = -1
    /\ Len(skills) = 2 /\ skills[1] # skills[2]
    /\ skill = skills[2]

\* the rotation curves of a bone
RotCurvesOf(bone_name) ==
    {c \in 1..Len(fcurves) : fcurves[c].data_path = <<bone_name, "rotation_quaternion">>}

\* C8: every motion of the selected skill that has been processed has, when its
\* rotation is used, exactly four rotation curves, of index 0..3, each with a
\* keyframe at time k for every frame k; the value of the curve of index 0 is
\* minus raw rotation array 0 at rot_off+k, the value of the curve of index
\* 1, 2, 3 is raw rotation array 1, 2, 3 at rot_off+k.  A motion whose rotation
\* is not used has no rotation curve.
C8_RotationCurves ==
    (op = "add_action_from_skill" /\ pc \in {"motions", "done"}) =>
        \A j \in 1..(mi - 1) :
            LET m  == skill.motions[j]
                cs == RotCurvesOf(m.bone_name)
            IN  IF m.rot_used
                THEN /\ Cardinality(cs) = 4
                     /\ \A a \in 0..3 :
                          \E c \in cs :
                             /\ fcurves[c].index = a
                             /\ Len(fcurves[c].keyframe_points) = m.num_frames
                             /\ \A k \in 0..(m.num_frames - 1) :
                                   fcurves[c].keyframe_points[k + 1] =
                                     <<k, IF a = 0 THEN -Raw(cfp, 3, m.rot_off + k)
                                                   ELSE Raw(cfp, 3 + a, m.rot_off + k)>>
                ELSE cs = {}

\* a finished call over two motions with rotation used, one of them with
\* position used too, whose first rotation component is not zero
C8_Witness ==
    /\ op = "add_action_from_skill" /\ pc = "done"
    /\ Len(skill.motions) = 2
    /\ \E c \in 1..Len(fcurves) :
           /\ fcurves[c].data_path[2] = "location"
    /\ \E c \in 1..Len(fcurves) :
           /\ fcurves[c].data_path[2] = "rotation_quaternion"
           /\ fcurves[c].index = 0
           /\ Len(fcurves[c].keyframe_points) = MaxFrames
           /\ fcurves[c].keyframe_points[MaxFrames][2] # 0

(***************************************************************************)
(* Claims about the lookup                                                 *)
(***************************************************************************)
\* loader[name] gives a result (does not raise)
Resolves(loader, name) == DictFileLoader_getitem(loader, name).exc = "none"

Containing == {i \in 1..Len(loaders) : Resolves(loaders[i], basename)}

LookupOver == op = "lookup" /\ lpc \in {"returned", "raised"}

\* C1: a finished lookup has returned the result of the first loader, in list
\* order, that contains the entry; a loader that does not contain it never
\* ends the lookup; the lookup raises only when no loader contains the entry
\* (whatever the class of the error it then raises).
C1_FirstContainingLoaderWins ==
    LookupOver =>
        IF Containing # {}
        THEN /\ lpc = "returned"
             /\ lres = DictFileLoader_getitem(loaders[FirstOf(Containing)], basename)
        ELSE lpc = "raised"

\* the stored names of a listing that have the lowercase form of fullname
SameLower(filenames, fullname) ==
    {k \in 1..Len(filenames) : Lower(filenames[k]) = Lower(fullname)}

Fullname(i) == Format(loaders[i].format_str, basename)

CaseInsensitive(loader) ==
    loader.openf \in {"GetFilenameFromTemporaryFromFar", "OpenFromDir", "GetFilenameFromDir"}

Init == InitLookup \/ InitArmature \/ InitMesh \/ InitAction

Next == NextLookup \/ NextArmature \/ NextMesh \/ NextAction

Spec == Init /\ [][Next]_vars

\* the scene the operation was called in
SceneAtCall == IF op \in {"lookup", "create_armature"} THEN NoScene ELSE ArmatureScene

\* C9: when create_armature, add_mesh_to_armature or add_action_from_skill has
\* failed, the scene holds nothing the call created: no object linked, no
\* datablock, no edit bone, no vertex group, no animation data or action, and
\* the editor is not in edit mode.
C9_NoPartialImport ==
    pc = "failed" =>
        /\ scene = SceneAtCall
        /\ edit_bones = <<>>
        /\ vertex_groups = <<>>
        /\ fcurves = <<>>

\* C10: on the shared FAR cursor every stream but the one opened last has been
\* read to the end; when a lookup is about to open a stream, every stream of
\* the cursor has been read to the end (the mesh stream before the texture is
\* requested, the character stream before the animation frames are); and a
\* stream opened by GetFilenameFromTemporaryFromFar has been read to the end
\* when the call has returned.
C10_OneStreamAtATime ==
    \A k \in 1..Len(far_stream) :
        /\ (k < Len(far_stream) => far_stream[k].consumed)
        /\ (lpc = "loop" => far_stream[k].consumed)
        /\ (far_stream[k].opener = "GetFilenameFromTemporaryFromFar" => far_stream[k].consumed)
        /\ (pc = "done" => far_stream[k].consumed)

\* add_mesh_to_armature has finished with a texture that
\* GetFilenameFromTemporaryFromFar took from the archive the mesh came from
C10_Witness ==
    /\ op = "add_mesh_to_armature" /\ pc = "done"
    /\ Len(far_stream) = 2
    /\ far_stream[1].opener = "caller"
    /\ far_stream[2].opener = "GetFilenameFromTemporaryFromFar"
====
